---- MODULE Spec2Model ----
(***************************************************************************)
(* The "Away Message" business settings section of Telegram Desktop        *)
(* (settings/business/settings_away_message.cpp): the editing buffer       *)
(* (_recipients, _schedule, _enabled), the schedule selector with its two  *)
(* date pickers, and the save performed by the destructor.                 *)
(***************************************************************************)
EXTENDS Integers, Sequences, FiniteSets

VARIABLES
    phase,       \* "closed" (not constructed), "open" (alive), "destroyed"
    store,       \* businessInfo().awaySettings(): the persisted AwaySettings
    current,     \* setupContent's local `current`: the settings read at load
    loadNow,     \* setupContent's local `now`, 0 while the clock was not read
    _recipients, \* rpl::variable<Data::BusinessRecipients>
    _schedule,   \* rpl::variable<Data::AwaySchedule>
    _enabled,    \* rpl::variable<bool>
    box,         \* the ChooseDateTimeBox on screen, with its evaluated bounds
    quitting,    \* what Core::Quitting() returned to the destructor
    writes,      \* the arguments of every saveAwaySettings call, in order
    shortcuts,   \* shortcutMessages(): the names of the shortcuts created
    touched,     \* some handler of the user's ran since construction
    probe,       \* validator check: the interval handed to BadCustomInterval
    verdict      \* validator check: what BadCustomInterval returned

vars == << phase, store, current, loadNow, _recipients, _schedule, _enabled,
           box, quitting, writes, shortcuts, touched, probe, verdict >>

-----------------------------------------------------------------------------
(* Bounds of the model *)

\* Timestamps are sampled at each anchor date and up to MaxOffset seconds
\* before and after it.
MaxOffset == 1

\* BusinessRecipients is opaque here: the values 0..MaxRecipients, 0 being the
\* default-constructed one.
MaxRecipients == 1

-----------------------------------------------------------------------------
(* Time Validator *)

\* base::unixtime::serialize(QDateTime(QDate(2013, 8, 1))), taken in UTC.
\* TimeId is a 32-bit integer; every timestamp below stays far under 2^31, so
\* no sum or difference here wraps.
StartTimeMin == 1375315200

EndTimeMin == StartTimeMin + 3600

\* WorkingInterval::operator bool: an interval is set when start < end.
IntervalIsSet(interval) == interval.start < interval.end

\* As BadCustomInterval, with the end held to the start's floor.
BadCustomIntervalOneFloor(interval) ==
    \/ ~IntervalIsSet(interval)
    \/ interval.start < StartTimeMin
    \/ interval.end < StartTimeMin

BadCustomInterval(interval) ==
    \/ ~IntervalIsSet(interval)
    \/ interval.start < StartTimeMin
    \/ interval.end < EndTimeMin

-----------------------------------------------------------------------------
(* Data *)

\* The radio buttons the selector adds (Type::Never has no button).
RadioTypes == {"Always", "OutsideWorkingHours", "Custom"}

ScheduleTypes == {"Never"} \cup RadioTypes

Recipients == 0 .. MaxRecipients

\* A default-constructed WorkingInterval: start = 0, end = 0.
UnsetInterval == [start |-> 0, end |-> 0]

\* A default-constructed Data::AwaySettings: type Never, nothing else set.
DefaultAwaySettings ==
    [recipients |-> 0,
     schedule |-> [type |-> "Never", customInterval |-> UnsetInterval]]

Around(t) == (t - MaxOffset) .. (t + MaxOffset)

\* A date well after the floor, for intervals nowhere near it.
LateTime == EndTimeMin + 30 * 24 * 60 * 60

\* The timestamps a date picker can return in the model.
TimeSamples ==
    Around(StartTimeMin) \cup Around(EndTimeMin) \cup {LateTime, LateTime + 1}

\* The start times found in persisted settings: unset, just below the floor,
\* at it, and at the end's floor (an interval with start >= end).
StoredStarts == {0, StartTimeMin - 1, StartTimeMin, EndTimeMin}

\* The end times found in persisted settings: unset, just below the floor,
\* at it.
StoredEnds == {0, EndTimeMin - 1, EndTimeMin}

\* The clock at load: before the floor date (a wrong clock), at it, after it.
NowSamples ==
    {StartTimeMin - 24 * 60 * 60, StartTimeMin, LateTime}

StoredSettings ==
    [recipients : Recipients,
     schedule : [type : ScheduleTypes,
                 customInterval : [start : StoredStarts, end : StoredEnds]]]

NoBox == [kind |-> "none", min |-> 0, max |-> 0, hasMax |-> FALSE]

NoProbe == UnsetInterval

\* ChooseDateTimeBox: the times the box lets the user submit, given the
\* values its min and max providers returned.
Submittable(b) ==
    {t \in TimeSamples : t >= b.min /\ (b.hasMax => t <= b.max)}

-----------------------------------------------------------------------------
(* Away Message Screen *)

Init ==
    /\ phase = "closed"
    /\ store \in StoredSettings
    /\ current = DefaultAwaySettings
    /\ loadNow = 0
    /\ _recipients = 0
    /\ _schedule = DefaultAwaySettings.schedule
    /\ _enabled = FALSE
    /\ box = NoBox
    /\ quitting = FALSE
    /\ writes = << >>
    /\ shortcuts = {}
    /\ touched = FALSE
    /\ probe = NoProbe
    /\ verdict = "unchecked"

\* As InitialSchedule, without the substitution of Always for Never.
InitialScheduleKeepsNever(cur, now) ==
    IF BadCustomInterval(cur.schedule.customInterval)
    THEN [cur.schedule EXCEPT
             !.customInterval = [start |-> now, end |-> now + 24 * 60 * 60]]
    ELSE cur.schedule

\* As InitialSchedule, with a disabled schedule keeping its stored interval.
InitialScheduleKeepsInterval(cur, now) ==
    LET initialSchedule ==
            [cur.schedule EXCEPT
                !.type = IF @ = "Never" THEN "Always" ELSE @]
    IN  IF BadCustomInterval(initialSchedule.customInterval)
        THEN [initialSchedule EXCEPT
                 !.customInterval = [start |-> now,
                                     end |-> now + 24 * 60 * 60]]
        ELSE initialSchedule

\* setupContent, lines 209-223: the working schedule computed at load.
InitialSchedule(cur, now) ==
    LET disabled == (cur.schedule.type = "Never")
        initialSchedule ==
            IF disabled
            THEN [type |-> "Always", customInterval |-> UnsetInterval]
            ELSE cur.schedule
    IN  IF BadCustomInterval(initialSchedule.customInterval)
        THEN [initialSchedule EXCEPT
                 !.customInterval = [start |-> now,
                                     end |-> now + 24 * 60 * 60]]
        ELSE initialSchedule

\* setupContent, lines 216-217: base::unixtime::now() is read only inside the
\* branch taken for a bad interval.
ReadsClock(cur) ==
    BadCustomInterval(
        IF cur.schedule.type = "Never" THEN UnsetInterval
        ELSE cur.schedule.customInterval)

\* As InitialEnabled, with the toggle starting at disabled.
InitialEnabledInverted(cur) == (cur.schedule.type = "Never")

\* setupContent, line 239: the toggle starts at !disabled.
InitialEnabled(cur) == ~(cur.schedule.type = "Never")

\* AwayMessage::AwayMessage -> setupContent.
Construct(now) ==
    /\ phase = "closed"
    /\ phase' = "open"
    /\ current' = store
    /\ loadNow' = IF ReadsClock(store) THEN now ELSE 0
    /\ _recipients' = store.recipients
    /\ _schedule' = InitialSchedule(store, now)
    /\ _enabled' = InitialEnabled(store)
    /\ UNCHANGED << store, box, quitting, writes, touched, shortcuts, probe,
                    verdict >>

\* The user clicks the enable toggle.
ToggleEnabled ==
    /\ phase = "open"
    /\ box.kind = "none"
    /\ _enabled' = ~_enabled
    /\ touched' = TRUE
    /\ UNCHANGED << phase, store, current, loadNow, _recipients, _schedule,
                    box, quitting, writes, shortcuts, probe, verdict >>

\* As TypeChosen, building a fresh schedule instead of modifying a copy.
TypeChosenFresh(value) == [type |-> value, customInterval |-> UnsetInterval]

\* The group->changes() handler, lines 105-107: copy, set the type, assign.
TypeChosen(value) == [_schedule EXCEPT !.type = value]

\* group->changes(): the user picks another radio button.  The selector is
\* inside the wrap shown only while the toggle is on.
ChooseType(value) ==
    /\ phase = "open"
    /\ box.kind = "none"
    /\ _enabled
    /\ value # _schedule.type
    /\ _schedule' = TypeChosen(value)
    /\ touched' = TRUE
    /\ UNCHANGED << phase, store, current, loadNow, _recipients, _enabled,
                    box, quitting, writes, shortcuts, probe, verdict >>

\* Start picker, line 152: the min provider is StartTimeMin itself.
StartPickerMin == StartTimeMin

\* As StartPickerMax, from the schedule as it was at construction.
StartPickerMaxAtLoad == InitialSchedule(current, loadNow).customInterval.end - 1

\* Start picker, line 153: the max provider, current end - 1.
StartPickerMax == _schedule.customInterval.end - 1

\* As EndPickerMin, letting the end equal the start.
EndPickerMinLoose == _schedule.customInterval.start

\* End picker, line 175: the min provider, current start + 1.
EndPickerMin == _schedule.customInterval.start + 1

\* The start button's clicked callback: chooseDate shows the box.  The button
\* is inside customWrap, shown only while the type is Custom.
OpenStartPicker ==
    /\ phase = "open"
    /\ box.kind = "none"
    /\ _enabled
    /\ _schedule.type = "Custom"
    /\ box' = [kind |-> "start", min |-> StartPickerMin,
               max |-> StartPickerMax, hasMax |-> TRUE]
    /\ touched' = TRUE
    /\ UNCHANGED << phase, store, current, loadNow, _recipients, _schedule,
                    _enabled, quitting, writes, shortcuts, probe, verdict >>

\* The end button's clicked callback: the max provider is nullptr.
OpenEndPicker ==
    /\ phase = "open"
    /\ box.kind = "none"
    /\ _enabled
    /\ _schedule.type = "Custom"
    /\ box' = [kind |-> "end", min |-> EndPickerMin,
               max |-> 0, hasMax |-> FALSE]
    /\ touched' = TRUE
    /\ UNCHANGED << phase, store, current, loadNow, _recipients, _schedule,
                    _enabled, quitting, writes, shortcuts, probe, verdict >>

\* Start picker's done callback, lines 154-158.
StartDone(time) == [_schedule EXCEPT !.customInterval.start = time]

\* End picker's done callback, lines 177-181.
EndDone(time) == [_schedule EXCEPT !.customInterval.end = time]

\* chooseDate's save, lines 118-123: done(time), then the box closes.
ConfirmStart(time) ==
    /\ phase = "open"
    /\ box.kind = "start"
    /\ time \in Submittable(box)
    /\ _schedule' = StartDone(time)
    /\ box' = NoBox
    /\ touched' = TRUE
    /\ UNCHANGED << phase, store, current, loadNow, _recipients, _enabled,
                    quitting, writes, shortcuts, probe, verdict >>

ConfirmEnd(time) ==
    /\ phase = "open"
    /\ box.kind = "end"
    /\ time \in Submittable(box)
    /\ _schedule' = EndDone(time)
    /\ box' = NoBox
    /\ touched' = TRUE
    /\ UNCHANGED << phase, store, current, loadNow, _recipients, _enabled,
                    quitting, writes, shortcuts, probe, verdict >>

\* The box is closed without submitting: done is never called.
CancelPicker ==
    /\ phase = "open"
    /\ box.kind # "none"
    /\ box' = NoBox
    /\ touched' = TRUE
    /\ UNCHANGED << phase, store, current, loadNow, _recipients, _schedule,
                    _enabled, quitting, writes, shortcuts, probe, verdict >>

\* AddBusinessRecipientsSelector writes the user's selection to its data,
\* &_recipients.  The selector is inside the wrap shown while the toggle is on.
ChangeRecipients(value) ==
    /\ phase = "open"
    /\ box.kind = "none"
    /\ _enabled
    /\ value # _recipients
    /\ _recipients' = value
    /\ touched' = TRUE
    /\ UNCHANGED << phase, store, current, loadNow, _schedule, _enabled,
                    box, quitting, writes, shortcuts, probe, verdict >>

\* The create button's clicked callback, lines 262-266: emplaceShortcut
\* returns the shortcut of that name, creating it when there is none.  The
\* button is inside the wrap shown while the toggle is on.
CreateShortcut ==
    /\ phase = "open"
    /\ box.kind = "none"
    /\ _enabled
    /\ shortcuts' = shortcuts \cup {"away"}
    /\ touched' = TRUE
    /\ UNCHANGED << phase, store, current, loadNow, _recipients, _schedule,
                    _enabled, box, quitting, writes, probe, verdict >>

\* As SaveValue, without the test of _enabled.
SaveValueAlwaysBuffers == [recipients |-> _recipients, schedule |-> _schedule]

\* AwayMessage::save, lines 294-300: the argument of saveAwaySettings.
SaveValue ==
    IF _enabled
    THEN [recipients |-> _recipients, schedule |-> _schedule]
    ELSE DefaultAwaySettings

\* As SavesOnDestroy, without the test of Core::Quitting().
SavesOnDestroyAlways(isQuitting) == TRUE

\* AwayMessage::~AwayMessage, lines 192-196: whether save runs.
SavesOnDestroy(isQuitting) == ~isQuitting

\* AwayMessage::~AwayMessage, with the value Core::Quitting() has by then.
Destroy(isQuitting) ==
    /\ phase = "open"
    /\ phase' = "destroyed"
    /\ box' = NoBox
    /\ quitting' = isQuitting
    /\ IF SavesOnDestroy(isQuitting)
       THEN /\ writes' = Append(writes, SaveValue)
            /\ store' = SaveValue
       ELSE UNCHANGED << writes, store >>
    /\ UNCHANGED << current, loadNow, _recipients, _schedule, _enabled,
                    touched, shortcuts, probe, verdict >>

Next ==
    \/ \E now \in NowSamples : Construct(now)
    \/ ToggleEnabled
    \/ \E value \in RadioTypes : ChooseType(value)
    \/ OpenStartPicker
    \/ OpenEndPicker
    \/ \E time \in TimeSamples : ConfirmStart(time)
    \/ \E time \in TimeSamples : ConfirmEnd(time)
    \/ CancelPicker
    \/ \E value \in Recipients : ChangeRecipients(value)
    \/ CreateShortcut
    \/ \E isQuitting \in BOOLEAN : Destroy(isQuitting)

Spec == Init /\ [][Next]_vars

-----------------------------------------------------------------------------
(* Time Validator on its own: BadCustomInterval applied to sampled intervals *)

ProbeTimes == StoredStarts \cup StoredEnds \cup TimeSamples

InitValidator ==
    /\ phase = "closed"
    /\ store = DefaultAwaySettings
    /\ current = DefaultAwaySettings
    /\ loadNow = 0
    /\ _recipients = 0
    /\ _schedule = DefaultAwaySettings.schedule
    /\ _enabled = FALSE
    /\ box = NoBox
    /\ quitting = FALSE
    /\ writes = << >>
    /\ shortcuts = {}
    /\ touched = FALSE
    /\ probe \in [start : ProbeTimes, end : ProbeTimes]
    /\ verdict = "unchecked"

Validate ==
    /\ verdict = "unchecked"
    /\ verdict' = IF BadCustomInterval(probe) THEN "bad" ELSE "good"
    /\ UNCHANGED << phase, store, current, loadNow, _recipients, _schedule,
                    _enabled, box, quitting, writes, touched, shortcuts,
                    probe >>

NextValidator == Validate

SpecValidator == InitValidator /\ [][NextValidator]_vars

-----------------------------------------------------------------------------
(* Properties *)

\* The working schedule as setupContent left it.
LoadedSchedule == InitialSchedule(current, loadNow)

\* The persisted settings are kept as they are by setupContent: the type is
\* not Never and the stored interval is not bad.
LoadedAsStored ==
    /\ current.schedule.type # "Never"
    /\ ~BadCustomInterval(current.schedule.customInterval)

\* C1: when the screen is destroyed while the application is not quitting,
\* saveAwaySettings receives {recipients: _recipients, schedule: _schedule}
\* if _enabled is true at that moment, and the default AwaySettings (type
\* Never) if it is false, whatever the buffers hold.  (The destructor leaves
\* the three buffers as they were.)
C1_SavedValue ==
    (phase = "destroyed" /\ ~quitting) =>
        /\ Len(writes) = 1
        /\ _enabled =>
              writes[1] = [recipients |-> _recipients, schedule |-> _schedule]
        /\ ~_enabled =>
              /\ writes[1] = DefaultAwaySettings
              /\ writes[1].schedule.type = "Never"

\* C1 witness: destroyed while disabled, after edits left a Custom schedule
\* and non-default recipients in the buffers.
C1_Witness ==
    /\ phase = "destroyed"
    /\ ~quitting
    /\ touched
    /\ ~_enabled
    /\ _schedule.type = "Custom"
    /\ _recipients # 0
    /\ Len(writes) = 1

\* C2: the store is written exactly once per screen lifetime, at destruction,
\* and only if the application is not quitting: nothing is written (and the
\* store keeps what was loaded) while the screen is open, a destruction while
\* quitting writes nothing, a destruction while not quitting writes once.
C2_WriteOnceAtDestroy ==
    /\ phase # "destroyed" => writes = << >>
    /\ phase = "open" => store = current
    /\ (phase = "destroyed" /\ quitting) => (writes = << >> /\ store = current)
    /\ (phase = "destroyed" /\ ~quitting) =>
           (Len(writes) = 1 /\ store = writes[1])

\* C2 witness: destroyed while quitting after edits, the edits are not saved.
C2_Witness ==
    /\ phase = "destroyed"
    /\ quitting
    /\ touched
    /\ _enabled
    /\ [recipients |-> _recipients, schedule |-> _schedule] # current
    /\ writes = << >>

\* C3: on construction, a persisted type Never gives _enabled = false and a
\* working type Always; any other persisted type gives _enabled = true and
\* that type.  In every state of the screen the working type is one of
\* Always, OutsideWorkingHours, Custom.
C3_LoadedType ==
    /\ (phase # "closed" /\ ~touched /\ current.schedule.type = "Never") =>
           (~_enabled /\ _schedule.type = "Always")
    /\ (phase # "closed" /\ ~touched /\ current.schedule.type # "Never") =>
           (_enabled /\ _schedule.type = current.schedule.type)
    /\ phase # "closed" =>
           _schedule.type \in {"Always", "OutsideWorkingHours", "Custom"}

\* C3 witness: just constructed from a persisted type Never.
C3_Witness ==
    /\ phase = "open"
    /\ ~touched
    /\ current.schedule.type = "Never"
    /\ _schedule.type = "Always"

\* C4: on construction, the working interval is the persisted one when the
\* persisted type is not Never and the persisted interval is not bad; in every
\* other case it is {start: now, end: now + 86400}.
C4_LoadedInterval ==
    (phase # "closed" /\ ~touched) =>
        IF /\ current.schedule.type # "Never"
           /\ ~BadCustomInterval(current.schedule.customInterval)
        THEN _schedule.customInterval = current.schedule.customInterval
        ELSE _schedule.customInterval =
                 [start |-> loadNow, end |-> loadNow + 86400]

\* C4 witness: a persisted Custom schedule starting at StartTimeMin - 1 was
\* replaced by the window anchored at now.
C4_Witness ==
    /\ phase = "open"
    /\ ~touched
    /\ current.schedule.type = "Custom"
    /\ current.schedule.customInterval.start = StartTimeMin - 1
    /\ current.schedule.customInterval.end >= EndTimeMin
    /\ _schedule.customInterval = [start |-> loadNow, end |-> loadNow + 86400]

\* C5: BadCustomInterval returns true exactly when the interval's boolean
\* test fails, or start < StartTimeMin(), or end < EndTimeMin(), with
\* EndTimeMin() = StartTimeMin() + 3600.
C5_BadExactly ==
    /\ EndTimeMin = StartTimeMin + 3600
    /\ verdict # "unchecked" =>
           ((verdict = "bad") <=>
               \/ ~IntervalIsSet(probe)
               \/ probe.start < StartTimeMin
               \/ probe.end < StartTimeMin + 3600)

\* C5 witness: an interval found good with its end exactly at the floor.
C5_Witness ==
    /\ verdict = "good"
    /\ probe.start = StartTimeMin
    /\ probe.end = StartTimeMin + 3600

\* C6: an open date picker's bounds come from the schedule current when it
\* was opened: the start picker has minimum StartTimeMin() and maximum
\* (current end - 1); the end picker has minimum (current start + 1) and no
\* maximum.
C6_PickerBounds ==
    /\ box.kind = "start" =>
           /\ box.min = StartTimeMin
           /\ box.hasMax
           /\ box.max = _schedule.customInterval.end - 1
    /\ box.kind = "end" =>
           /\ box.min = _schedule.customInterval.start + 1
           /\ ~box.hasMax

\* C6 witness: the start picker is open after the end was edited, and its
\* maximum follows the edited end.
C6_Witness ==
    /\ box.kind = "start"
    /\ _schedule.customInterval.end # LoadedSchedule.customInterval.end
    /\ box.max = _schedule.customInterval.end - 1

\* C7: in every state of the screen (the load-time clock being no earlier
\* than StartTimeMin()), the working interval has start >= StartTimeMin() and
\* end >= EndTimeMin(), so a saved Custom schedule never has a bad interval.
C7_IntervalAboveFloors ==
    (phase # "closed" /\ (ReadsClock(current) => loadNow >= StartTimeMin)) =>
        /\ _schedule.customInterval.start >= StartTimeMin
        /\ _schedule.customInterval.end >= EndTimeMin
        /\ (Len(writes) = 1 /\ writes[1].schedule.type = "Custom") =>
               ~BadCustomInterval(writes[1].schedule.customInterval)

\* C8: each edit changes one field of the editing buffer and leaves the rest:
\* a radio choice only the type; a start confirmation only the start; an end
\* confirmation only the end; a cancel nothing; the toggle only _enabled.
C8_EditFrames ==
    [][
        /\ (\E value \in RadioTypes : ChooseType(value)) =>
               /\ _schedule'.customInterval = _schedule.customInterval
               /\ UNCHANGED << _recipients, _enabled >>
        /\ (\E time \in TimeSamples : ConfirmStart(time)) =>
               /\ _schedule'.type = _schedule.type
               /\ _schedule'.customInterval.end = _schedule.customInterval.end
               /\ UNCHANGED << _recipients, _enabled >>
        /\ (\E time \in TimeSamples : ConfirmEnd(time)) =>
               /\ _schedule'.type = _schedule.type
               /\ _schedule'.customInterval.start
                      = _schedule.customInterval.start
               /\ UNCHANGED << _recipients, _enabled >>
        /\ CancelPicker => UNCHANGED << _recipients, _schedule, _enabled >>
        /\ ToggleEnabled =>
               /\ _enabled' = ~_enabled
               /\ UNCHANGED << _recipients, _schedule >>
    ]_vars

\* C8 witness: the type was changed by a radio choice and the interval is
\* still the loaded one.
C8_Witness ==
    /\ phase = "open"
    /\ touched
    /\ _schedule.type # LoadedSchedule.type
    /\ _schedule.customInterval = LoadedSchedule.customInterval
    /\ _recipients = current.recipients

\* C9: in every state of the screen the working interval has start < end.
C9_StartBeforeEnd ==
    phase # "closed" =>
        _schedule.customInterval.start < _schedule.customInterval.end

\* C9 witness: after an edit, the interval is as tight as the pickers allow.
C9_Witness ==
    /\ phase = "open"
    /\ touched
    /\ _schedule.customInterval # LoadedSchedule.customInterval
    /\ _schedule.customInterval.start + 1 = _schedule.customInterval.end

\* C10: opening the screen and destroying it with no user interaction (not
\* quitting) writes back the settings read at construction, whenever the
\* persisted type is not Never and the persisted interval is not bad.
C10_UntouchedRoundTrip ==
    (phase = "destroyed" /\ ~touched /\ ~quitting /\ LoadedAsStored) =>
        /\ writes = << current >>
        /\ store = current

\* C10 witness: an untouched screen over a persisted Custom schedule, saved.
C10_Witness ==
    /\ phase = "destroyed"
    /\ ~touched
    /\ ~quitting
    /\ LoadedAsStored
    /\ current.schedule.type = "Custom"
    /\ current.recipients # 0
    /\ Len(writes) = 1

====
